---- MODULE Spec2Model ----
(***************************************************************************)
(* Seat ledger and booking lifecycle of the GoBus reservation backend.     *)
(*                                                                         *)
(* The database holds bus documents and booking documents.  Every request  *)
(* handler is an async function; each `await` on the database is one       *)
(* atomic step, and the handler keeps its own in-memory copy of the        *)
(* documents it loaded between steps.  Several requests are in flight at   *)
(* once (one per slot of Procs), so steps of different handlers interleave.*)
(*                                                                         *)
(* Persistence layer, as the handlers rely on it: findById returns a copy  *)
(* of the stored document (or null); doc.save() runs the schema's pre-save *)
(* hook and writes the fields whose in-memory value differs from the value *)
(* that was loaded, and fails when the stored document no longer exists;   *)
(* Model.create() validates the supplied fields, runs the pre-save hook    *)
(* and inserts; findByIdAndUpdate() writes the given fields after the      *)
(* per-field validators and runs no save hook.                             *)
(*                                                                         *)
(* Time is counted in whole hours; a calendar day is HoursPerDay hours.    *)
(***************************************************************************)
EXTENDS Integers, Sequences, FiniteSets, TLC

\* ---------------------------------------------------------------- bounds

\* Largest capacity an admin gives a bus in the model (schema allows 1..100).
MaxCapacity == 2
\* Number of booking documents that can be inserted.
MaxBookings == 2
\* Largest number of passengers in one createBooking request.
MaxPassengers == 2
\* Number of booking documents inserted in runs with bus administration.
MaxAdminBookings == 1

\* ------------------------------------------------------------- constants

HoursPerDay == 24
\* canCancel: more than this many hours before travel.
CancelCutoffHours == 2
\* eligibleRefundAmount: more than this many hours before travel gives 90%.
FullRefundHours == 24

\* ---------------------------------------------------------- input domains

BusIds == {1}
Procs == {1, 2}
SeatLabels == {"A1", "A2"}
BusStatuses == {"active", "inactive", "maintenance"}
\* availableSeats of a createBus body when the field is absent.
Absent == -1

Null == [null |-> TRUE]

VARIABLES
  now,        \* wall clock, in hours
  buses,      \* stored bus documents: function from the ids of stored buses
  deleted,    \* ids of buses that were deleted (an id is never reused)
  bookings,   \* stored booking documents: sequence, booking id = index
  proc,       \* per request slot: position, request, loaded documents
  last,       \* the response sent last, with the request it answers
  seats0,     \* history: availableSeats each bus was stored with at creation
  releases,   \* history: per booking, how often its seats were released
  trip        \* history: the booking inserted last and the ledger it found

vars == <<now, buses, deleted, bookings, proc, last, seats0, releases, trip>>

\* ------------------------------------------------------------- helpers

Min(a, b) == IF a <= b THEN a ELSE b

\* today.setHours(0, 0, 0, 0)
StartOfDay(t) == (t \div HoursPerDay) * HoursPerDay

\* endOfDay.setHours(23, 59, 59, 999), to the hour
EndOfDay(t) == StartOfDay(t) + HoursPerDay - 1

\* toLocaleDateString('en-US', { weekday: 'long' }), as a weekday index
DayName(t) == (t \div HoursPerDay) % 7

\* passengerDetails of a request: the seat label of each passenger, in order
PassengerLists == UNION {[1..n -> SeatLabels] : n \in 1..MaxPassengers}

\* passengerDetails that name no seat twice
DistinctLists == {l \in PassengerLists : \A i, j \in DOMAIN l : l[i] = l[j] => i = j}

SeatSet(seats) == {seats[i] : i \in DOMAIN seats}

BookingIds == 1..MaxBookings

\* req.user as the auth layer supplies it: the user's id and role, and whether
\* protect lets the request through (valid token of a stored, active user).
Owner == [id |-> 1, role |-> "user", valid |-> TRUE]
Stranger == [id |-> 2, role |-> "user", valid |-> TRUE]
Admin == [id |-> 3, role |-> "admin", valid |-> TRUE]
Anonymous == [id |-> 0, role |-> "user", valid |-> FALSE]
Principals == {Owner, Stranger, Admin, Anonymous}

Idle == [pc |-> "idle", op |-> "none", user |-> Anonymous, busId |-> 0, id |-> 0,
         seats |-> <<>>,
         travelDate |-> 0, bus |-> Null, loaded |-> Null, doc |-> Null,
         created |-> 0]

NoTrip == [id |-> 0, pre |-> 0]

\* res.status(c).json(...): the response to request r (HTTP status and, for a
\* failure, its kind).
Response(r, c, e) == [op |-> r.op, code |-> c, error |-> e]

NoResponse == Response(Idle, 0, "")

Quiescent == \A p \in Procs : proc[p].pc = "idle"

\* ------------------------------------------------------------ Bus model

\* busSchema.pre('save'): a new bus without (or with a falsy) availableSeats gets
\* its capacity; availableSeats above capacity is cut to capacity.
BusPreSave(doc, isNew) ==
  LET d1 == IF isNew /\ (doc.availableSeats = Absent \/ doc.availableSeats = 0)
            THEN [doc EXCEPT !.availableSeats = doc.capacity]
            ELSE doc
  IN IF d1.availableSeats > d1.capacity
     THEN [d1 EXCEPT !.availableSeats = d1.capacity]
     ELSE d1

\* The guard of busSchema.methods.bookSeats; the method throws when it is false.
CanBookSeats(bus, seatCount) == bus.availableSeats >= seatCount

\* busSchema.methods.bookSeats, on the in-memory document (before save()).
bookSeats(bus, seatCount) ==
  [bus EXCEPT !.availableSeats = bus.availableSeats - seatCount]

\* A release that refills the bus instead of adding the released seats.
releaseSeatsToCapacity(bus, seatCount) ==
  [bus EXCEPT !.availableSeats = bus.capacity]

\* busSchema.methods.releaseSeats, on the in-memory document (before save()).
releaseSeats(bus, seatCount) ==
  [bus EXCEPT !.availableSeats = Min(bus.availableSeats + seatCount, bus.capacity)]

\* doc.save() of a loaded document: the stored document with every field whose
\* in-memory value differs from the loaded one overwritten.
SaveDoc(stored, loaded, local) ==
  [f \in DOMAIN stored |-> IF local[f] # loaded[f] THEN local[f] ELSE stored[f]]

BusExists(b) == b \in DOMAIN buses

\* bus.save() after a change of the in-memory bus: the stored buses afterwards.
\* Nothing is written when no field changed.
SaveBus(b, loaded, local) ==
  LET d == BusPreSave(local, FALSE)
  IN IF d = loaded THEN buses
     ELSE [buses EXCEPT ![b] = SaveDoc(buses[b], loaded, d)]

\* save() fails when a changed document is no longer stored.
SaveBusFails(b, loaded, local) ==
  BusPreSave(local, FALSE) # loaded /\ ~BusExists(b)

\* ---------------------------------------------------------- Booking model

\* bookingSchema travelDate validator: value >= new Date().setHours(0, 0, 0, 0)
TravelDateValid(travelDate, t) == travelDate >= StartOfDay(t)

\* A cutoff that still allows a cancel exactly CancelCutoffHours before travel.
canCancelAtCutoff(doc, t) ==
  IF doc.status # "confirmed" THEN FALSE
  ELSE (doc.travelDate - t) >= CancelCutoffHours

\* A cutoff that does not look at the status of the booking.
canCancelAnyStatus(doc, t) ==
  (doc.travelDate - t) > CancelCutoffHours

\* bookingSchema.virtual('canCancel')
canCancel(doc, t) ==
  IF doc.status # "confirmed" THEN FALSE
  ELSE (doc.travelDate - t) > CancelCutoffHours

\* bookingSchema.virtual('eligibleRefundAmount')
eligibleRefundAmount(doc, t) ==
  IF ~canCancel(doc, t) THEN 0
  ELSE IF (doc.travelDate - t) > FullRefundHours
       THEN (doc.totalAmount * 9) \div 10
  ELSE IF (doc.travelDate - t) > CancelCutoffHours
       THEN doc.totalAmount \div 2
  ELSE 0

\* A cancellation that marks the payment refunded whatever the refund is.
cancelBookingAlwaysRefunded(doc, reason, t) ==
  LET d1 == [doc EXCEPT !.status = "cancelled",
                        !.cancellationReason = reason]
      d2 == [d1 EXCEPT !.refundAmount = eligibleRefundAmount(d1, t)]
  IN [d2 EXCEPT !.paymentStatus = "refunded"]

\* bookingSchema.methods.cancelBooking up to its first await: the assignments to
\* the in-memory booking, in the order the method makes them.
cancelBookingFields(doc, reason, t) ==
  LET d1 == [doc EXCEPT !.status = "cancelled",
                        !.cancellationReason = reason]
      d2 == [d1 EXCEPT !.refundAmount = eligibleRefundAmount(d1, t)]
  IN [d2 EXCEPT !.paymentStatus =
                  IF d2.refundAmount > 0 THEN "refunded" ELSE "paid"]

\* A confirmation that leaves the payment status alone.
confirmBookingStatusOnly(doc) ==
  [doc EXCEPT !.status = "confirmed"]

\* bookingSchema.methods.confirmBooking: the assignments before save().
confirmBookingFields(doc) ==
  [doc EXCEPT !.status = "confirmed", !.paymentStatus = "paid"]

BookingExists(id) == id \in DOMAIN bookings

\* A seat check that only looks at bookings for the same instant.
checkSeatAvailabilitySameInstant(busId, travelDate, requestedSeats) ==
  LET bookedSeats ==
        UNION {SeatSet(bookings[i].seats) : i \in
                 {j \in DOMAIN bookings :
                    /\ bookings[j].busId = busId
                    /\ bookings[j].travelDate = travelDate
                    /\ bookings[j].status \in {"confirmed", "pending"}}}
  IN ~(\E s \in SeatSet(requestedSeats) : s \in bookedSeats)

\* bookingSchema.statics.checkSeatAvailability
checkSeatAvailability(busId, travelDate, requestedSeats) ==
  LET bookedSeats ==
        UNION {SeatSet(bookings[i].seats) : i \in
                 {j \in DOMAIN bookings :
                    /\ bookings[j].busId = busId
                    /\ bookings[j].travelDate >= StartOfDay(travelDate)
                    /\ bookings[j].travelDate <= EndOfDay(travelDate)
                    /\ bookings[j].status \in {"confirmed", "pending"}}}
  IN ~(\E s \in SeatSet(requestedSeats) : s \in bookedSeats)

\* A booking charged the fare once, whatever the number of seats.
NewBookingUnitFare(userId, busId, seats, travelDate, fare) ==
  [userId |-> userId, busId |-> busId, seats |-> seats, travelDate |-> travelDate,
   totalAmount |-> fare, seatCount |-> Len(seats),
   status |-> "pending", paymentStatus |-> "pending",
   cancellationReason |-> "", refundAmount |-> 0]

\* The document Booking.create inserts for a request (schema defaults filled in).
NewBooking(userId, busId, seats, travelDate, fare) ==
  [userId |-> userId, busId |-> busId, seats |-> seats, travelDate |-> travelDate,
   totalAmount |-> fare * Len(seats), seatCount |-> Len(seats),
   status |-> "pending", paymentStatus |-> "pending",
   cancellationReason |-> "", refundAmount |-> 0]

\* Seats of a bus held by bookings with a status in `statuses`.
RECURSIVE SumSeats(_, _, _)
SumSeats(b, statuses, n) ==
  IF n = 0 THEN 0
  ELSE SumSeats(b, statuses, n - 1)
       + (IF bookings[n].busId = b /\ bookings[n].status \in statuses
          THEN bookings[n].seatCount ELSE 0)

\* ----------------------------------------------------------------- Init

Init ==
  /\ now = 0
  /\ buses = <<>>
  /\ deleted = {}
  /\ bookings = <<>>
  /\ proc = [p \in Procs |-> Idle]
  /\ last = NoResponse
  /\ seats0 = <<>>
  /\ releases = <<>>
  /\ trip = NoTrip

\* ------------------------------------------------------------ bus admin

\* createBus: Bus.create(req.body) for a bus number not stored yet.
createBus(b, capacity, availableSeats, fare, days) ==
  /\ ~BusExists(b) /\ b \notin deleted
  /\ LET doc == BusPreSave([capacity |-> capacity, availableSeats |-> availableSeats,
                            fare |-> fare, status |-> "active",
                            operatingDays |-> days], TRUE)
     IN /\ buses' = (b :> doc) @@ buses
        /\ seats0' = (b :> doc.availableSeats) @@ seats0
  /\ UNCHANGED <<now, deleted, bookings, proc, last, releases, trip>>

\* An updateBus that re-prices the stored bookings of the bus when its fare changes.
updateBusRepricing(b, field, value) ==
  /\ BusExists(b)
  /\ buses' = [buses EXCEPT ![b] = [@ EXCEPT ![field] = value]]
  /\ bookings' = [i \in DOMAIN bookings |->
                    IF field = "fare" /\ bookings[i].busId = b
                    THEN [bookings[i] EXCEPT !.totalAmount = value * bookings[i].seatCount]
                    ELSE bookings[i]]
  /\ UNCHANGED <<now, deleted, proc, last, seats0, releases, trip>>

\* updateBus: Bus.findByIdAndUpdate(busId, req.body, { runValidators: true }) with a
\* body of one field that passed the route's validators.
updateBus(b, field, value) ==
  /\ BusExists(b)
  /\ buses' = [buses EXCEPT ![b] = [@ EXCEPT ![field] = value]]
  /\ UNCHANGED <<now, deleted, bookings, proc, last, seats0, releases, trip>>

\* The values the PUT /:id validators accept for a field.
UpdateValues(field, fares, days) ==
  CASE field = "capacity" -> 1..MaxCapacity
    [] field = "availableSeats" -> 0..(MaxCapacity + 1)
    [] field = "fare" -> fares
    [] field = "status" -> BusStatuses
    [] field = "operatingDays" -> days


\* ------------------------------------------------------ request handlers

\* A request of operation `op`, not yet past its first await.
Request(op) == [Idle EXCEPT !.op = op]

\* A slot that takes up a new request: the lowest idle one.
Free(p) ==
  /\ proc[p].pc = "idle"
  /\ \A q \in Procs : q < p => proc[q].pc # "idle"

IsResponse(x) == "code" \in DOMAIN x

\* What slot p holds after a step whose outcome is `out`: the handler's next
\* position, or nothing once the response is sent.
After(out) == IF IsResponse(out) THEN Idle ELSE out

\* A step of slot p.
Step(p, out) ==
  /\ proc' = [proc EXCEPT ![p] = After(out)]
  /\ last' = IF IsResponse(out) THEN out ELSE last

\* createBooking requests that may still insert a booking.
Inserting == {q \in Procs : proc[q].pc \in {"cb_check", "cb_create"}}

\* A createBooking that counts the free seats of the bus per travel day: capacity
\* less the seats of the pending and confirmed bookings of that day.
cbFindPerDateCapacity(r) ==
  LET b == r.busId
      held == {i \in DOMAIN bookings :
                 /\ bookings[i].busId = b
                 /\ bookings[i].travelDate >= StartOfDay(r.travelDate)
                 /\ bookings[i].travelDate <= EndOfDay(r.travelDate)
                 /\ bookings[i].status \in {"confirmed", "pending"}}
  IN IF ~BusExists(b) THEN Response(r, 404, "NotFound")
     ELSE IF buses[b].status # "active" THEN Response(r, 400, "BusNotActive")
     ELSE IF r.travelDate < StartOfDay(now) THEN Response(r, 400, "PastTravelDate")
     ELSE IF DayName(r.travelDate) \notin buses[b].operatingDays
          THEN Response(r, 400, "NotOperating")
     ELSE IF buses[b].capacity < Len(r.seats) + Cardinality(held)
          THEN Response(r, 400, "InsufficientCapacity")
     ELSE [r EXCEPT !.pc = "cb_check", !.bus = buses[b]]

\* A createBooking without the status check of lines 45-50.
cbFindAnyBusStatus(r) ==
  LET b == r.busId
  IN IF ~BusExists(b) THEN Response(r, 404, "NotFound")
     ELSE IF r.travelDate < StartOfDay(now) THEN Response(r, 400, "PastTravelDate")
     ELSE IF DayName(r.travelDate) \notin buses[b].operatingDays
          THEN Response(r, 400, "NotOperating")
     ELSE IF buses[b].availableSeats < Len(r.seats)
          THEN Response(r, 400, "InsufficientCapacity")
     ELSE [r EXCEPT !.pc = "cb_check", !.bus = buses[b]]

\* A createBooking without the seat-count check of lines 75-81.
cbFindNoCapacityCheck(r) ==
  LET b == r.busId
  IN IF ~BusExists(b) THEN Response(r, 404, "NotFound")
     ELSE IF buses[b].status # "active" THEN Response(r, 400, "BusNotActive")
     ELSE IF r.travelDate < StartOfDay(now) THEN Response(r, 400, "PastTravelDate")
     ELSE IF DayName(r.travelDate) \notin buses[b].operatingDays
          THEN Response(r, 400, "NotOperating")
     ELSE [r EXCEPT !.pc = "cb_check", !.bus = buses[b]]

\* createBooking, lines 37-81: the outcome of Bus.findById and of the checks made
\* on the loaded bus.
cbFindOutcome(r) ==
  LET b == r.busId
  IN IF ~BusExists(b) THEN Response(r, 404, "NotFound")
     ELSE IF buses[b].status # "active" THEN Response(r, 400, "BusNotActive")
     ELSE IF r.travelDate < StartOfDay(now) THEN Response(r, 400, "PastTravelDate")
     ELSE IF DayName(r.travelDate) \notin buses[b].operatingDays
          THEN Response(r, 400, "NotOperating")
     ELSE IF buses[b].availableSeats < Len(r.seats)
          THEN Response(r, 400, "InsufficientCapacity")
     ELSE [r EXCEPT !.pc = "cb_check", !.bus = buses[b]]

\* protect (middleware/auth.js): a request without a valid token of a stored,
\* active user is answered 401 and reaches no handler.
protect(r, out) ==
  IF ~r.user.valid THEN Response(r, 401, "Unauthenticated") ELSE out

\* router.post('/', protect, ..., createBooking) for the principal u.
cbFindAs(p, u, b, seats, travelDate) ==
  /\ Free(p)
  /\ LET r == [Request("createBooking") EXCEPT !.user = u,
                  !.busId = b, !.seats = seats, !.travelDate = travelDate]
     IN Step(p, protect(r, cbFindOutcome(r)))
  /\ UNCHANGED <<now, buses, deleted, bookings, seats0, releases, trip>>

\* createBooking requested by the user Owner.
cbFind(p, b, seats, travelDate) == cbFindAs(p, Owner, b, seats, travelDate)

\* createBooking, lines 83-93: Booking.checkSeatAvailability.
cbCheck(p) ==
  /\ proc[p].pc = "cb_check"
  /\ Step(p, IF checkSeatAvailability(proc[p].busId, proc[p].travelDate,
                                      proc[p].seats)
             THEN [proc[p] EXCEPT !.pc = "cb_create"]
             ELSE Response(proc[p], 400, "SeatConflict"))
  /\ UNCHANGED <<now, buses, deleted, bookings, seats0, releases, trip>>

\* createBooking, lines 95-111: Booking.create(bookingData).
cbCreate(p) ==
  /\ proc[p].pc = "cb_create"
  /\ LET r == proc[p]
         id == Len(bookings) + 1
     IN IF ~TravelDateValid(r.travelDate, now)
        THEN /\ Step(p, Response(r, 500, "ServerError"))
             /\ UNCHANGED <<bookings, releases, trip>>
        ELSE /\ bookings' = Append(bookings,
                              NewBooking(r.user.id, r.busId, r.seats, r.travelDate,
                                         r.bus.fare))
             /\ releases' = Append(releases, 0)
             /\ trip' = [id |-> id,
                         pre |-> IF BusExists(r.busId)
                                 THEN buses[r.busId].availableSeats
                                 ELSE r.bus.availableSeats]
             /\ Step(p, [r EXCEPT !.pc = "cb_save", !.created = id])
  /\ UNCHANGED <<now, buses, deleted, seats0>>

\* createBooking, lines 113-134: bus.bookSeats(seatCount) on the bus loaded at line
\* 37, then the 201 response; line 136: any failure becomes a 500 response.
cbSave(p) ==
  /\ proc[p].pc = "cb_save"
  /\ LET r == proc[p]
         seatCount == Len(r.seats)
         local == bookSeats(r.bus, seatCount)
     IN IF ~CanBookSeats(r.bus, seatCount) \/ SaveBusFails(r.busId, r.bus, local)
        THEN /\ Step(p, Response(r, 500, "ServerError"))
             /\ UNCHANGED buses
        ELSE /\ buses' = SaveBus(r.busId, r.bus, local)
             /\ Step(p, Response(r, 201, ""))
  /\ UNCHANGED <<now, deleted, bookings, seats0, releases, trip>>

\* A confirmBooking without the status check of lines 286-291.
cfFindAnyStatus(r) ==
  IF ~BookingExists(r.id) THEN Response(r, 404, "NotFound")
  ELSE [r EXCEPT !.pc = "cf_save", !.loaded = bookings[r.id],
                 !.doc = confirmBookingFields(bookings[r.id])]

\* confirmBooking (controller), lines 277-291: Booking.findById and the status check.
cfFindOutcome(r) ==
  IF ~BookingExists(r.id) THEN Response(r, 404, "NotFound")
  ELSE IF bookings[r.id].status # "pending"
       THEN Response(r, 400, "InvalidTransition")
  ELSE [r EXCEPT !.pc = "cf_save", !.loaded = bookings[r.id],
                 !.doc = confirmBookingFields(bookings[r.id])]

\* An adminOnly that lets every authenticated user through.
adminOnlyAnyRole(r, out) == out

\* adminOnly (middleware/roleAuth.js): 403 unless req.user.role is admin.
adminOnly(r, out) ==
  IF r.user.role # "admin" THEN Response(r, 403, "Forbidden") ELSE out

\* router.put('/:id/confirm', protect, adminOnly, confirmBooking) for the
\* principal u.
cfFindAs(p, u, id) ==
  /\ Free(p)
  /\ LET r == [Request("confirmBooking") EXCEPT !.user = u, !.id = id]
     IN Step(p, protect(r, adminOnly(r, cfFindOutcome(r))))
  /\ UNCHANGED <<now, buses, deleted, bookings, seats0, releases, trip>>

\* confirmBooking requested by an admin.
cfFind(p, id) == cfFindAs(p, Admin, id)

\* confirmBooking, lines 293-313: the save() of booking.confirmBooking(), then 200.
cfSave(p) ==
  /\ proc[p].pc = "cf_save"
  /\ LET r == proc[p]
     IN /\ bookings' = [bookings EXCEPT ![r.id] = SaveDoc(@, r.loaded, r.doc)]
        /\ Step(p, Response(r, 200, ""))
  /\ UNCHANGED <<now, buses, deleted, seats0, releases, trip>>

\* reason || 'User requested cancellation'
EffectiveReason(reason) ==
  IF reason = "" THEN "User requested cancellation" ELSE reason

\* A cancelBooking without the status checks of lines 352-364.
cxFindNoStatusCheck(r, reason) ==
  IF ~BookingExists(r.id) THEN Response(r, 404, "NotFound")
  ELSE IF r.user.role # "admin" /\ bookings[r.id].userId # r.user.id
       THEN Response(r, 403, "Forbidden")
  ELSE IF ~canCancel(bookings[r.id], now) THEN Response(r, 400, "CannotCancel")
  ELSE [r EXCEPT !.pc = "cx_findbus", !.busId = bookings[r.id].busId,
                 !.loaded = bookings[r.id],
                 !.doc = cancelBookingFields(bookings[r.id],
                                             EffectiveReason(reason), now)]

\* cancelBooking (controller), lines 334-367, and the method's lines 366-374:
\* Booking.findById, the owner-or-admin check, the status checks, the canCancel
\* check and the assignments to the in-memory booking.
cxFindOutcome(r, reason) ==
  IF ~BookingExists(r.id) THEN Response(r, 404, "NotFound")
  ELSE IF r.user.role # "admin" /\ bookings[r.id].userId # r.user.id
       THEN Response(r, 403, "Forbidden")
  ELSE IF bookings[r.id].status = "cancelled"
       THEN Response(r, 400, "InvalidTransition")
  ELSE IF bookings[r.id].status = "completed"
       THEN Response(r, 400, "InvalidTransition")
  ELSE IF ~canCancel(bookings[r.id], now) THEN Response(r, 400, "CannotCancel")
  ELSE [r EXCEPT !.pc = "cx_findbus", !.busId = bookings[r.id].busId,
                 !.loaded = bookings[r.id],
                 !.doc = cancelBookingFields(bookings[r.id],
                                             EffectiveReason(reason), now)]

\* router.delete('/:id', protect, ..., cancelBooking) for the principal u.
cxFindAs(p, u, id, reason) ==
  /\ Free(p)
  /\ LET r == [Request("cancelBooking") EXCEPT !.user = u, !.id = id]
     IN Step(p, protect(r, cxFindOutcome(r, reason)))
  /\ UNCHANGED <<now, buses, deleted, bookings, seats0, releases, trip>>

\* cancelBooking requested by an admin.
cxFind(p, id, reason) == cxFindAs(p, Admin, id, reason)

\* bookingSchema.methods.cancelBooking, lines 377-379: Bus.findById(this.busId).
cxFindBus(p) ==
  /\ proc[p].pc = "cx_findbus"
  /\ Step(p, IF BusExists(proc[p].busId)
             THEN [proc[p] EXCEPT !.pc = "cx_release", !.bus = buses[proc[p].busId]]
             ELSE [proc[p] EXCEPT !.pc = "cx_save"])
  /\ UNCHANGED <<now, buses, deleted, bookings, seats0, releases, trip>>

\* bookingSchema.methods.cancelBooking, line 380: bus.releaseSeats(this.seatCount);
\* a failure of its save() reaches the controller's catch (500).
cxRelease(p) ==
  /\ proc[p].pc = "cx_release"
  /\ LET r == proc[p]
         local == releaseSeats(r.bus, r.doc.seatCount)
     IN IF SaveBusFails(r.busId, r.bus, local)
        THEN /\ Step(p, Response(r, 500, "ServerError"))
             /\ UNCHANGED <<buses, releases, trip>>
        ELSE /\ buses' = SaveBus(r.busId, r.bus, local)
             /\ releases' = [releases EXCEPT ![r.id] = @ + 1]
             /\ trip' = IF trip.id = r.id THEN trip ELSE NoTrip
             /\ Step(p, [r EXCEPT !.pc = "cx_save"])
  /\ UNCHANGED <<now, deleted, bookings, seats0>>

\* bookingSchema.methods.cancelBooking, line 383: this.save(); then the 200 response.
cxSave(p) ==
  /\ proc[p].pc = "cx_save"
  /\ LET r == proc[p]
     IN /\ bookings' = [bookings EXCEPT ![r.id] = SaveDoc(@, r.loaded, r.doc)]
        /\ Step(p, Response(r, 200, ""))
  /\ UNCHANGED <<now, buses, deleted, seats0, releases, trip>>

\* deleteBus, lines 468-477: Bus.findById.
dbFind(p, b) ==
  /\ Free(p)
  /\ LET r == [Request("deleteBus") EXCEPT !.busId = b]
     IN Step(p, IF ~BusExists(b) THEN Response(r, 404, "NotFound")
                ELSE [r EXCEPT !.pc = "db_count"])
  /\ UNCHANGED <<now, buses, deleted, bookings, seats0, releases, trip>>

\* deleteBus, lines 481-485: the bookings that block a deletion.
activeBookings(b) ==
  Cardinality({i \in DOMAIN bookings :
                 /\ bookings[i].busId = b
                 /\ bookings[i].status \in {"confirmed", "pending"}
                 /\ bookings[i].travelDate >= now})

\* deleteBus, lines 479-492: Booking.countDocuments and the check on its result.
dbCount(p) ==
  /\ proc[p].pc = "db_count"
  /\ Step(p, IF activeBookings(proc[p].busId) > 0
             THEN Response(proc[p], 400, "HasActiveBookings")
             ELSE [proc[p] EXCEPT !.pc = "db_delete"])
  /\ UNCHANGED <<now, buses, deleted, bookings, seats0, releases, trip>>

\* deleteBus, lines 494-500: Bus.findByIdAndDelete, then the 200 response.
dbDelete(p) ==
  /\ proc[p].pc = "db_delete"
  /\ LET b == proc[p].busId
     IN /\ buses' = [x \in (DOMAIN buses) \ {b} |-> buses[x]]
        /\ deleted' = IF BusExists(b) THEN deleted \cup {b} ELSE deleted
  /\ Step(p, Response(proc[p], 200, ""))
  /\ UNCHANGED <<now, bookings, seats0, releases, trip>>

\* ------------------------------------------------------------ environment

\* Time passes.
Tick(t) ==
  /\ t > now
  /\ now' = t
  /\ UNCHANGED <<buses, deleted, bookings, proc, last, seats0, releases, trip>>

\* A confirmed booking is marked completed from outside once its travel date passed.
ExternalComplete(id) ==
  /\ BookingExists(id)
  /\ bookings[id].status = "confirmed"
  /\ now > bookings[id].travelDate
  /\ bookings' = [bookings EXCEPT ![id].status = "completed"]
  /\ UNCHANGED <<now, buses, deleted, proc, last, seats0, releases, trip>>

\* -------------------------------------------------------- specifications

\* createBus requests with a fare in `fares` and operatingDays in `days`.
BusCreated(fares, days) ==
  \E b \in BusIds, capacity \in 1..MaxCapacity,
     availableSeats \in {Absent} \cup (0..(MaxCapacity + 1)),
     fare \in fares, d \in days :
       createBus(b, capacity, availableSeats, fare, d)

\* updateBus requests that set one of `fields`.
BusUpdated(fields, fares, days) ==
  \E b \in BusIds, field \in fields :
    \E value \in UpdateValues(field, fares, days) : updateBus(b, field, value)

\* New requests, taken up by the slots of `slots`.  A createBooking request that
\* passes the checks on the bus is taken up while fewer than `limit` bookings are
\* stored or about to be.
CreateRequested(slots, lists, dates, limit) ==
  \E p \in slots, b \in BusIds, seats \in lists, t \in dates :
    /\ ~IsResponse(cbFindOutcome([Request("createBooking") EXCEPT
                      !.busId = b, !.seats = seats, !.travelDate = t]))
         => Len(bookings) + Cardinality(Inserting) < limit
    /\ cbFind(p, b, seats, t)

ConfirmRequested(slots) ==
  \E p \in slots, id \in BookingIds : cfFind(p, id)

CancelRequested(slots, reasons) ==
  \E p \in slots, id \in BookingIds, reason \in reasons : cxFind(p, id, reason)

DeleteRequested(slots) ==
  \E p \in slots, b \in BusIds : dbFind(p, b)

\* The later awaits of the requests in flight.
BookingStep ==
  \/ \E p \in Procs : cbCheck(p)
  \/ \E p \in Procs : cbCreate(p)
  \/ \E p \in Procs : cbSave(p)
  \/ \E p \in Procs : cfSave(p)
  \/ \E p \in Procs : cxFindBus(p)
  \/ \E p \in Procs : cxRelease(p)
  \/ \E p \in Procs : cxSave(p)

BusDeleteStep ==
  \/ \E p \in Procs : dbCount(p)
  \/ \E p \in Procs : dbDelete(p)

Ticked(clock) == \E t \in clock : Tick(t)

Completed == \E id \in BookingIds : ExternalComplete(id)

\* Inputs of the requests.
Fares == {0, 10}
\* operatingDays of a bus, as sets of weekday indices (0 = the weekday of day 0)
AllDays == {{0, 2}}
SomeDays == {{0, 2}, {0}}
\* travelDate values (hour stamps): midnight of day 0 and of day 2
TravelDates == {0, 48}
\* `reason` of a cancel request; "" is an absent reason
Reasons == {"", "plans changed"}
\* instants the clock visits
Clock == {24, 46, 49}
\* fields an admin rewrites in runs with bus administration
AdminFields == {"capacity", "availableSeats"}

\* The whole system at one instant: bookings and bus administration.
Next ==
  \/ BusCreated({10}, AllDays)
  \/ BusUpdated(AdminFields, {10}, AllDays)
  \/ CreateRequested(Procs, {<<"A1">>}, {48}, MaxAdminBookings)
  \/ ConfirmRequested(Procs)
  \/ CancelRequested(Procs, {""})
  \/ DeleteRequested(Procs)
  \/ BookingStep
  \/ BusDeleteStep

Spec == Init /\ [][Next]_vars

\* Concurrent booking requests on buses the admin leaves alone.
NextBooking ==
  \/ BusCreated({10}, AllDays)
  \/ CreateRequested(Procs, DistinctLists, {48}, MaxBookings)
  \/ ConfirmRequested(Procs)
  \/ CancelRequested(Procs, {""})
  \/ BookingStep

SpecBooking == Init /\ [][NextBooking]_vars

\* The lifecycle of bookings under concurrent requests, with time passing.
NextLifecycle ==
  \/ BusCreated({10}, AllDays)
  \/ CreateRequested(Procs, {<<"A1">>}, {48}, MaxBookings)
  \/ ConfirmRequested(Procs)
  \/ CancelRequested(Procs, {""})
  \/ BookingStep
  \/ Ticked({49})
  \/ Completed

SpecLifecycle == Init /\ [][NextLifecycle]_vars

\* Requests that do not overlap: one slot, each request answered before the next.
NextSequential ==
  \/ BusCreated(Fares, SomeDays)
  \/ CreateRequested({1}, PassengerLists, TravelDates, MaxBookings)
  \/ ConfirmRequested({1})
  \/ CancelRequested({1}, Reasons)
  \/ BookingStep
  \/ Ticked(Clock)
  \/ Completed

SpecSequential == Init /\ [][NextSequential]_vars

\* Requests of the principals `users`.
CreateRequestedAs(slots, users, lists, dates, limit) ==
  \E p \in slots, u \in users, b \in BusIds, seats \in lists, t \in dates :
    /\ (u.valid /\ ~IsResponse(cbFindOutcome([Request("createBooking") EXCEPT
                      !.busId = b, !.seats = seats, !.travelDate = t])))
         => Len(bookings) + Cardinality(Inserting) < limit
    /\ cbFindAs(p, u, b, seats, t)

ConfirmRequestedAs(slots, users) ==
  \E p \in slots, u \in users, id \in BookingIds : cfFindAs(p, u, id)

CancelRequestedAs(slots, users, reasons) ==
  \E p \in slots, u \in users, id \in BookingIds, reason \in reasons :
    cxFindAs(p, u, id, reason)

\* Concurrent requests for one booking while an admin changes the fare of the
\* bus between their steps.
NextFare ==
  \/ BusCreated(Fares, AllDays)
  \/ BusUpdated({"fare"}, Fares, AllDays)
  \/ CreateRequested(Procs, {<<"A1">>, <<"A1", "A2">>}, {48}, MaxAdminBookings)
  \/ ConfirmRequested(Procs)
  \/ CancelRequested(Procs, {""})
  \/ BookingStep

SpecFare == Init /\ [][NextFare]_vars

\* Concurrent booking requests of owners, other users, admins and callers
\* without a valid token.
NextRoles ==
  \/ BusCreated({10}, AllDays)
  \/ CreateRequestedAs(Procs, {Owner, Stranger, Anonymous}, {<<"A1">>}, {48}, MaxBookings)
  \/ ConfirmRequestedAs({1}, Principals)
  \/ CancelRequestedAs({1}, Principals, {""})
  \/ BookingStep

SpecRoles == Init /\ [][NextRoles]_vars

\* travelDate values with two instants of day 2
AdmissionDates == {0, 48, 50}

\* Requests that do not overlap, on buses whose status the admin changes.
NextAdmission ==
  \/ BusCreated({10}, SomeDays)
  \/ BusUpdated({"status"}, {10}, SomeDays)
  \/ CreateRequested({1}, PassengerLists, AdmissionDates, MaxBookings)
  \/ ConfirmRequested({1})
  \/ CancelRequested({1}, {""})
  \/ BookingStep
  \/ Ticked({24})

SpecAdmission == Init /\ [][NextAdmission]_vars

\* ------------------------------------------------------------ properties

Committed == {"pending", "confirmed"}
NonCancelled == {"pending", "confirmed", "completed"}

\* Slot p takes the step from position `from` to position `to`.
Moves(p, from, to) == proc[p].pc = from /\ proc'[p].pc = to

\* C1: the seats held by the pending and confirmed bookings of a bus never exceed
\* the availableSeats k the bus was stored with, whatever the interleaving of the
\* createBooking requests.
C1_NoOverbooking ==
  \A b \in DOMAIN buses :
    SumSeats(b, Committed, Len(bookings)) <= seats0[b]

\* C2: every stored bus has 0 <= availableSeats <= capacity.
C2_LedgerInRange ==
  \A b \in DOMAIN buses :
    /\ 0 <= buses[b].availableSeats
    /\ buses[b].availableSeats <= buses[b].capacity

\* C3: while no request is in flight, the seats of the non-cancelled bookings of a
\* bus (stored with all its seats available) do not exceed its capacity, and
\* availableSeats is the capacity minus those seats.
C3_LedgerIsComplement ==
  Quiescent =>
    \A b \in DOMAIN buses :
      seats0[b] = buses[b].capacity =>
        LET held == SumSeats(b, NonCancelled, Len(bookings))
        IN /\ held <= buses[b].capacity
           /\ buses[b].availableSeats = buses[b].capacity - held

\* C4: the step on which a createBooking request succeeds lowers the stored
\* availableSeats of its bus by exactly the seats of that request, so that two
\* successful requests for a and b seats lower it by a + b.
C4_AtomicReserve ==
  [][\A p \in Procs :
       (Moves(p, "cb_save", "idle") /\ last'.code = 201) =>
         /\ BusExists(proc[p].busId)
         /\ buses'[proc[p].busId].availableSeats =
              buses[proc[p].busId].availableSeats - Len(proc[p].seats)]_vars

\* C5: a createBooking request that ends in an error response has inserted no
\* booking.
C5_FailureAtomic ==
  [][\A p \in Procs :
       (proc[p].op = "createBooking" /\ proc[p].pc # "idle"
          /\ proc'[p].pc = "idle" /\ last'.code >= 400) =>
         proc[p].created = 0]_vars

\* C6: once the stored status of a booking is cancelled or completed, no step
\* changes it.
C6_TerminalStatus ==
  [][\A id \in DOMAIN bookings :
       bookings[id].status \in {"cancelled", "completed"} =>
         bookings'[id].status = bookings[id].status]_vars

InvalidConfirm ==
  [op |-> "confirmBooking", code |-> 400, error |-> "InvalidTransition"]

\* C7: a confirm request for a stored booking whose status is not pending is
\* answered with the InvalidTransition failure, ends there, and changes neither
\* the bookings nor the buses.
C7_ConfirmRejected ==
  [][\A p \in Procs, id \in DOMAIN bookings :
       (cfFind(p, id) /\ bookings[id].status # "pending") =>
         /\ last' = InvalidConfirm
         /\ proc'[p] = Idle
         /\ bookings' = bookings
         /\ buses' = buses]_vars

\* C7 happens: a confirm was refused for a booking that is cancelled.
C7_Witness ==
  /\ last = InvalidConfirm
  /\ \E id \in DOMAIN bookings : bookings[id].status = "cancelled"

\* C8: a confirm request for a pending booking goes on to its save; the save is
\* answered with 200, stores status confirmed and paymentStatus paid, and leaves
\* totalAmount, seatCount, refundAmount of the booking and the buses unchanged.
C8_ConfirmPending ==
  [][\A p \in Procs :
       /\ \A id \in DOMAIN bookings :
            (cfFind(p, id) /\ bookings[id].status = "pending") =>
              (proc'[p].pc = "cf_save" /\ proc'[p].id = id)
       /\ Moves(p, "cf_save", "idle") =>
            LET old == bookings[proc[p].id]
                new == bookings'[proc[p].id]
            IN /\ last' = [op |-> "confirmBooking", code |-> 200, error |-> ""]
               /\ new.status = "confirmed"
               /\ new.paymentStatus = "paid"
               /\ new.totalAmount = old.totalAmount
               /\ new.seatCount = old.seatCount
               /\ new.refundAmount = old.refundAmount
               /\ buses' = buses]_vars

\* C8 happens: a confirm was answered with 200 and the booking is confirmed and paid.
C8_Witness ==
  /\ last = [op |-> "confirmBooking", code |-> 200, error |-> ""]
  /\ \E id \in DOMAIN bookings :
       bookings[id].status = "confirmed" /\ bookings[id].paymentStatus = "paid"

C10_CancelEffects ==
  [][\A p \in Procs :
       /\ \A id \in DOMAIN bookings, reason \in Reasons :
            (cxFind(p, id, reason) /\ proc'[p].pc = "cx_findbus") =>
              LET old == bookings[id]
                  new == proc'[p].doc
              IN /\ new.status = "cancelled"
                 /\ new.cancellationReason = EffectiveReason(reason)
                 /\ new.refundAmount = eligibleRefundAmount(old, now)
                 /\ new.paymentStatus =
                      IF new.refundAmount > 0 THEN "refunded" ELSE "paid"
       /\ Moves(p, "cx_release", "cx_save") =>
            LET b == proc[p].busId
            IN buses'[b].availableSeats =
                 Min(buses[b].availableSeats + proc[p].doc.seatCount,
                     buses[b].capacity)
       /\ Moves(p, "cx_save", "idle") =>
            LET new == bookings'[proc[p].id]
            IN /\ last'.code = 200
               /\ new.status = proc[p].doc.status
               /\ new.cancellationReason = proc[p].doc.cancellationReason
               /\ new.refundAmount = proc[p].doc.refundAmount
               /\ new.paymentStatus = proc[p].doc.paymentStatus]_vars

\* The refund tiers by whole hours h before travel, for a total of `total`.
PolicyRefund(h, total) ==
  IF h > 24 THEN (total * 9) \div 10
  ELSE IF h > 2 THEN total \div 2
  ELSE 0

\* C11: for every stored confirmed booking, h hours before its travel date, the
\* eligible refund is the tier of h (over 24: 90%; over 2 up to 24: 50%; up to
\* 2: nothing, and not cancellable); and a cancel request that goes through on
\* it sets refundAmount to that tier and paymentStatus refunded when it is
\* positive.
C11_RefundTiers ==
  [][\A id \in DOMAIN bookings :
       bookings[id].status = "confirmed" =>
         LET h == bookings[id].travelDate - now
             due == PolicyRefund(h, bookings[id].totalAmount)
         IN /\ eligibleRefundAmount(bookings[id], now) = due
            /\ canCancel(bookings[id], now) <=> h > 2
            /\ \A p \in Procs, reason \in Reasons :
                 (cxFind(p, id, reason) /\ proc'[p].pc = "cx_findbus") =>
                   /\ proc'[p].doc.status = "cancelled"
                   /\ proc'[p].doc.refundAmount = due
                   /\ due > 0 => proc'[p].doc.paymentStatus = "refunded"]_vars

CannotCancel ==
  [op |-> "cancelBooking", code |-> 400, error |-> "CannotCancel"]

C13_PendingNotCancellable ==
  [][/\ \A p \in Procs, id \in DOMAIN bookings, reason \in Reasons :
          (cxFind(p, id, reason) /\ bookings[id].status = "pending") =>
            /\ last' = CannotCancel
            /\ proc'[p] = Idle
            /\ bookings' = bookings
            /\ buses' = buses
     /\ \A id \in DOMAIN bookings :
          releases'[id] # releases[id] => bookings[id].status # "pending"]_vars

\* C13 happens: a cancel was refused while a booking is pending, well before its
\* travel date.
C13_Witness ==
  /\ last = CannotCancel
  /\ \E id \in DOMAIN bookings :
       /\ bookings[id].status = "pending"
       /\ bookings[id].travelDate - now > 24
       /\ releases[id] = 0

InvalidCancel ==
  [op |-> "cancelBooking", code |-> 400, error |-> "InvalidTransition"]

\* C14: a cancel request for a stored booking whose status is cancelled or
\* completed is answered with the InvalidTransition failure and ends there,
\* changing neither the bookings nor the buses.
C14_CancelRejected ==
  [][\A p \in Procs, id \in DOMAIN bookings, reason \in Reasons :
       (cxFind(p, id, reason)
          /\ bookings[id].status \in {"cancelled", "completed"}) =>
         /\ last' = InvalidCancel
         /\ proc'[p] = Idle
         /\ bookings' = bookings
         /\ buses' = buses]_vars

\* C14 happens: a cancel was refused as an invalid transition and a booking is
\* completed.
C14_Witness ==
  /\ last = InvalidCancel
  /\ \E id \in DOMAIN bookings : bookings[id].status = "completed"

\* The travel dates of the createBooking requests of any specification.
RequestDates == TravelDates \cup AdmissionDates

\* The stored bus b takes bookings for travel date t: it is active, t is today or
\* later and the weekday of t is one of its operating days.
Admits(b, t) ==
  /\ buses[b].status = "active"
  /\ t \div HoursPerDay >= now \div HoursPerDay
  /\ (t \div HoursPerDay) % 7 \in buses[b].operatingDays

\* Slot p takes up a createBooking request on this step: every step of cbFind
\* is one of these.
CreateStarts(p) ==
  /\ proc[p].pc = "idle"
  /\ \/ proc'[p].pc = "cb_check"
     \/ proc'[p].pc = "idle" /\ last'.op = "createBooking"

InsufficientCapacity ==
  [op |-> "createBooking", code |-> 400, error |-> "InsufficientCapacity"]

\* C15: a createBooking request for more seats than the stored bus has available
\* is rejected and ends there, inserting no booking and leaving the buses as
\* they are; on a bus that takes bookings for the date the failure is
\* InsufficientCapacity.
C15_InsufficientCapacity ==
  [][\A p \in Procs, b \in DOMAIN buses, seats \in PassengerLists,
        t \in RequestDates :
       (/\ CreateStarts(p)
        /\ buses[b].availableSeats < Len(seats)
        /\ cbFind(p, b, seats, t)) =>
         /\ last'.op = "createBooking" /\ last'.code = 400
         /\ Admits(b, t) => last' = InsufficientCapacity
         /\ proc'[p] = Idle
         /\ bookings' = bookings
         /\ buses' = buses]_vars

\* C15 happens: a request was refused for want of seats on a bus that has one
\* seat available (the request asked for two).
C15_Witness ==
  /\ last = InsufficientCapacity
  /\ \E b \in DOMAIN buses : buses[b].availableSeats = 1

\* Booking i holds seat label s of bus b on the calendar day of t.
Holds(i, b, t, s) ==
  /\ bookings[i].busId = b
  /\ bookings[i].status \in Committed
  /\ bookings[i].travelDate \div HoursPerDay = t \div HoursPerDay
  /\ \E k \in DOMAIN bookings[i].seats : bookings[i].seats[k] = s

SeatConflict ==
  [op |-> "createBooking", code |-> 400, error |-> "SeatConflict"]

\* C16: when a createBooking request reaches its seat check, it is refused with
\* SeatConflict, inserting nothing and leaving the buses as they are, if one of
\* its labels is held by a pending or confirmed booking of the same bus on the
\* same calendar day; otherwise (labels free, or held by cancelled bookings
\* only) it goes on to insert.
C16_SeatConflict ==
  [][\A p \in Procs :
       (proc[p].pc = "cb_check" /\ proc'[p].pc # "cb_check") =>
         LET r == proc[p]
             held == \E i \in DOMAIN bookings, k \in DOMAIN r.seats :
                       Holds(i, r.busId, r.travelDate, r.seats[k])
         IN IF held
            THEN /\ last' = SeatConflict
                 /\ proc'[p] = Idle
                 /\ bookings' = bookings
                 /\ buses' = buses
            ELSE proc'[p].pc = "cb_create"]_vars

\* C16 happens: a request was refused for a seat conflict while a pending booking
\* holds seat A1.
C16_Witness ==
  /\ last = SeatConflict
  /\ \E i \in DOMAIN bookings :
       bookings[i].status = "pending" /\ "A1" \in SeatSet(bookings[i].seats)

\* C17: no seat label is held by two different pending or confirmed bookings of
\* the same bus on the same calendar day.
C17_NoDoubleSeat ==
  \A i, j \in DOMAIN bookings :
    i # j =>
      \A k \in DOMAIN bookings[i].seats :
        bookings[i].status \in Committed =>
          ~Holds(j, bookings[i].busId, bookings[i].travelDate, bookings[i].seats[k])

\* C18: a createBooking request for a bus that is not stored, or that does not
\* take bookings for the travel date (not active, date before today, weekday
\* not an operating day), is rejected and ends there (404 for a missing bus,
\* 400 otherwise), inserting no booking and leaving the buses as they are; so
\* a request goes on, and can succeed, only when all four conditions held.
C18_Preconditions ==
  [][\A p \in Procs :
       CreateStarts(p) =>
         \A b \in BusIds, seats \in PassengerLists, t \in RequestDates :
           cbFind(p, b, seats, t) =>
             IF BusExists(b) /\ Admits(b, t)
             THEN TRUE
             ELSE /\ last'.op = "createBooking"
                  /\ last'.code = IF BusExists(b) THEN 400 ELSE 404
                  /\ ~BusExists(b) => last'.error = "NotFound"
                  /\ proc'[p] = Idle
                  /\ bookings' = bookings
                  /\ buses' = buses]_vars

\* C18 happens: a request was refused because the bus is not active.
C18_Witness ==
  /\ last = [op |-> "createBooking", code |-> 400, error |-> "BusNotActive"]
  /\ \E b \in DOMAIN buses : buses[b].status # "active"

Created == [op |-> "createBooking", code |-> 201, error |-> ""]

C20_LedgerOwnership ==
  [][\A b \in DOMAIN buses :
       (b \in DOMAIN buses'
          /\ buses'[b].availableSeats # buses[b].availableSeats) =>
         \E p \in Procs :
           /\ proc[p].busId = b
           /\ Moves(p, "cb_save", "idle") \/ Moves(p, "cx_release", "cx_save")]_vars

\* A request that protect and the role checks turned away leaves slot p idle and
\* the stored bookings and buses as they were.
Refused(p, op, code, error) ==
  /\ last' = [op |-> op, code |-> code, error |-> error]
  /\ proc'[p] = Idle
  /\ bookings' = bookings
  /\ buses' = buses

\* C21: a confirmBooking request of an authenticated user who is not an admin,
\* and a cancelBooking request for a stored booking of an authenticated user who
\* is neither an admin nor the booking's owner, are answered 403 Forbidden and
\* change neither the booking nor availableSeats; a request without an
\* authenticated active user is answered 401 and starts no createBooking,
\* confirmBooking or cancelBooking handler.
C21_RoleGating ==
  [][\A p \in Procs :
       /\ Free(p) =>
            \A u \in Principals :
              /\ ~u.valid =>
                   /\ \A b \in BusIds, seats \in PassengerLists, t \in RequestDates :
                        cbFindAs(p, u, b, seats, t) =>
                          Refused(p, "createBooking", 401, "Unauthenticated")
                   /\ \A id \in BookingIds :
                        /\ cfFindAs(p, u, id) =>
                             Refused(p, "confirmBooking", 401, "Unauthenticated")
                        /\ cxFindAs(p, u, id, "") =>
                             Refused(p, "cancelBooking", 401, "Unauthenticated")
              /\ (u.valid /\ u.role # "admin") =>
                   \A id \in BookingIds :
                     /\ cfFindAs(p, u, id) =>
                          Refused(p, "confirmBooking", 403, "Forbidden")
                     /\ (/\ BookingExists(id)
                         /\ bookings[id].userId # u.id
                         /\ cxFindAs(p, u, id, "")) =>
                          Refused(p, "cancelBooking", 403, "Forbidden")
       /\ proc'[p].pc # "idle" => proc'[p].user.valid]_vars

\* C21 happens: a cancelBooking request for a confirmed booking was answered 403
\* and the booking is still confirmed.
C21_Witness ==
  /\ last = [op |-> "cancelBooking", code |-> 403, error |-> "Forbidden"]
  /\ Quiescent
  /\ \E i \in DOMAIN bookings : bookings[i].status = "confirmed"

\* C22: in every reachable state a pending booking has paymentStatus pending, a
\* confirmed booking has paymentStatus paid, and a cancelled booking has
\* paymentStatus refunded exactly when its refundAmount is positive and paid
\* otherwise.
C22_PaymentStatus ==
  \A i \in DOMAIN bookings :
    LET d == bookings[i]
    IN /\ d.status = "pending" => d.paymentStatus = "pending"
       /\ d.status = "confirmed" => d.paymentStatus = "paid"
       /\ d.status = "cancelled" =>
            d.paymentStatus = (IF d.refundAmount > 0 THEN "refunded" ELSE "paid")

\* C22 happens: a pending, a confirmed and a cancelled booking are stored, the
\* last one written by a cancelBooking request that has answered.
C22_Witness ==
  /\ Quiescent
  /\ last = [op |-> "cancelBooking", code |-> 200, error |-> ""]
  /\ \E i, j \in DOMAIN bookings :
       /\ bookings[i].status = "cancelled"
       /\ bookings[j].status \in {"pending", "confirmed"}

\* C23: refundAmount is 0 while a booking has never been cancelled; the stored
\* value changes only on the step that saves a cancellation; and a cancellation
\* (the assignment of refundAmount among its writes) is saved for a booking at
\* most once: no cancelBooking request saves one onto a booking that an earlier
\* request has already cancelled.
C23_RefundWrittenOnce ==
  [][/\ \A i \in DOMAIN bookings :
          /\ (bookings[i].status \in {"pending", "confirmed"} /\ releases[i] = 0) =>
               bookings[i].refundAmount = 0
          /\ bookings'[i].refundAmount # bookings[i].refundAmount =>
               \E p \in Procs : proc[p].id = i /\ Moves(p, "cx_save", "idle")
     /\ \A p \in Procs :
          Moves(p, "cx_save", "idle") =>
            bookings[proc[p].id].status # "cancelled"]_vars

\* C24: the totalAmount of a booking is, at the step that creates it, the fare of
\* the bus the request loaded times the number of seats requested, and no later
\* step (the save of a confirmation or of a cancellation, an updateBus that
\* changes the bus's fare) changes it.
C24_TotalAmountFrozen ==
  [][/\ \A i \in DOMAIN bookings : bookings'[i].totalAmount = bookings[i].totalAmount
     /\ \A p \in Procs :
          (Moves(p, "cb_create", "cb_save") /\ Len(bookings') = Len(bookings) + 1) =>
            /\ bookings'[Len(bookings')].seatCount = Len(proc[p].seats)
            /\ bookings'[Len(bookings')].totalAmount =
                 proc[p].bus.fare * Len(proc[p].seats)]_vars

\* C24 happens: a booking of two seats created at fare 10 has been confirmed and
\* cancelled, the fare of its bus is now 0, and its totalAmount is still 20.
C24_Witness ==
  \E i \in DOMAIN bookings :
    /\ bookings[i].status = "cancelled"
    /\ bookings[i].seatCount = 2
    /\ bookings[i].totalAmount = 20
    /\ BusExists(bookings[i].busId)
    /\ buses[bookings[i].busId].fare = 0

\* C25: over the lifetime of a booking, bus.releaseSeats(seatCount) is applied to
\* its bus at most once, under every interleaving of the cancelBooking requests
\* for it.
C25_ReleasedAtMostOnce ==
  \A i \in DOMAIN bookings : releases[i] <= 1

\* C26: within one pending or confirmed booking every passenger holds a distinct
\* seat label: no createBooking request that names a label twice results in a
\* stored booking holding it twice.
C26_DistinctSeatsWithinBooking ==
  \A i \in DOMAIN bookings :
    bookings[i].status \in {"pending", "confirmed"} =>
      \A j, k \in DOMAIN bookings[i].seats :
        bookings[i].seats[j] = bookings[i].seats[k] => j = k

\* The createBooking request for the seats `seats` of bus b on travel date t.
CreateRequest(b, seats, t) ==
  [Request("createBooking") EXCEPT !.busId = b, !.seats = seats, !.travelDate = t]

\* C27: the capacity check of createBooking depends on the bus-wide
\* availableSeats alone and not on the travel date: on a bus that takes bookings
\* for date t a request is refused with InsufficientCapacity exactly when it asks
\* for more seats than availableSeats, so the seats a booking took for one date
\* count against every other date; a reservation lowers availableSeats by its
\* seat count whatever its date; and a completed booking never returns its
\* seats: completing leaves availableSeats alone and availableSeats grows only
\* on the release step of a cancelBooking request that loaded its booking as
\* confirmed.
C27_CapacityIsBusWide ==
  [][/\ \A b \in DOMAIN buses, seats \in PassengerLists, t \in RequestDates :
          Admits(b, t) =>
            ((cbFindOutcome(CreateRequest(b, seats, t)) =
                Response(CreateRequest(b, seats, t), 400, "InsufficientCapacity"))
               <=> buses[b].availableSeats < Len(seats))
     /\ \A p \in Procs :
          (Moves(p, "cb_save", "idle") /\ last' = Created) =>
            buses'[proc[p].busId].availableSeats =
              buses[proc[p].busId].availableSeats - Len(proc[p].seats)
     /\ \A i \in DOMAIN bookings :
          (bookings[i].status # "completed" /\ bookings'[i].status = "completed") =>
            buses' = buses
     /\ \A b \in DOMAIN buses :
          (b \in DOMAIN buses'
             /\ buses'[b].availableSeats > buses[b].availableSeats) =>
            \E p \in Procs :
              /\ Moves(p, "cx_release", "cx_save")
              /\ proc[p].busId = b
              /\ proc[p].loaded.status = "confirmed"]_vars

\* C27 happens: every seat of the bus is held by bookings for date 0, one of them
\* completed, nothing is held for date 48, the bus takes bookings for date 48
\* and a request has been refused with InsufficientCapacity.
C27_Witness ==
  /\ last = InsufficientCapacity
  /\ \E b \in DOMAIN buses :
       /\ buses[b].availableSeats = 0
       /\ Admits(b, 48)
       /\ \E i \in DOMAIN bookings :
            bookings[i].busId = b /\ bookings[i].status = "completed"
       /\ \A i \in DOMAIN bookings : bookings[i].travelDate = 0

\* C28: a bus that has a pending or confirmed booking with a travel date not yet
\* past is never deleted: on every step that removes a stored bus, no such
\* booking of that bus is stored, deleteBus requests interleaved with
\* createBooking requests included.
C28_NoDeleteWithActiveBookings ==
  [][\A b \in DOMAIN buses :
       b \notin DOMAIN buses' => activeBookings(b) = 0]_vars

\* C29: a createBus request without availableSeats stores the bus with
\* availableSeats equal to its capacity; a request with an explicit value v
\* stores min(v, capacity), so that a v between 0 and capacity is stored as
\* given.
C29_CreateBusSeats ==
  [][\A b \in BusIds, capacity \in 1..MaxCapacity,
        availableSeats \in {Absent} \cup (0..(MaxCapacity + 1)),
        fare \in Fares, d \in SomeDays :
       createBus(b, capacity, availableSeats, fare, d) =>
         buses'[b].availableSeats =
           (IF availableSeats = Absent THEN capacity
            ELSE Min(availableSeats, capacity))]_vars

====
